---- MODULE Spec2Model ----
(***************************************************************************)
(* MCP connection/discovery orchestrator of gemini-cli                     *)
(* (packages/core/src/tools/mcp-client.ts, mcp-prompt.ts).                 *)
(*                                                                         *)
(* Strings are sequences of one-character strings, so that the name        *)
(* resolver's character replacement, prefixing and slicing are computed    *)
(* as the code computes them.  An optional value (a JavaScript value that  *)
(* may be undefined) is a record [defined, value].                         *)
(***************************************************************************)
EXTENDS Integers, Sequences, FiniteSets, TLC

VARIABLES
    mcpDiscoveryState,          \* mcp-client.ts:60
    mcpServerStatusesInternal,  \* mcp-client.ts:50   server name -> status
    mcpPromptsRegistry,         \* mcp-client.ts:55   "server:name" -> prompt
    toolRegistry,               \* the ToolRegistry handed to discoverMcpTools
    call,                       \* each discoverMcpTools invocation
    task,                       \* each connectAndDiscover invocation
    orphanHandlers,             \* servers with a live client of an earlier run
    statusChangeListeners,      \* mcp-client.ts:69
    notified,                   \* what the last status write delivered
    resolved,                   \* input and result of the last step
    promptRegistry              \* an MCPPromptRegistry (mcp-prompt-registry.ts:13-14)

vars == <<mcpDiscoveryState, mcpServerStatusesInternal, mcpPromptsRegistry, toolRegistry, call, task, orphanHandlers, statusChangeListeners, notified, resolved, promptRegistry>>

-----------------------------------------------------------------------------
\* Optional values and string helpers

Undefined == [defined |-> FALSE, value |-> <<>>]

Some(v) == [defined |-> TRUE, value |-> v]

\* JavaScript truthiness of an optional string: undefined and "" are falsy
Truthy(opt) == opt.defined /\ opt.value # <<>>

Rep(c, n) == [i \in 1..n |-> c]

Min(a, b) == IF a < b THEN a ELSE b

Max(a, b) == IF a > b THEN a ELSE b

\* String.prototype.slice(start, end), negative indexes counted from the end
Slice(s, start, end) ==
    LET n == Len(s)
        from == IF start < 0 THEN Max(n + start, 0) ELSE Min(start, n)
        to == IF end < 0 THEN Max(n + end, 0) ELSE Min(end, n)
    IN  IF from < to THEN SubSeq(s, from + 1, to) ELSE <<>>

\* String.prototype.slice(start)
SliceFrom(s, start) == Slice(s, start, Len(s))

\* String.prototype.startsWith
StartsWith(s, prefix) == Len(prefix) <= Len(s) /\ SubSeq(s, 1, Len(prefix)) = prefix

\* Array.prototype.includes
Includes(list, x) == \E i \in 1..Len(list) : list[i] = x

Lower == {"a", "b", "c", "d", "e", "f", "g", "h", "i", "j", "k", "l", "m", "n", "o", "p", "q", "r", "s", "t", "u", "v", "w", "x", "y", "z"}

Upper == {"A", "B", "C", "D", "E", "F", "G", "H", "I", "J", "K", "L", "M", "N", "O", "P", "Q", "R", "S", "T", "U", "V", "W", "X", "Y", "Z"}

Digits == {"0", "1", "2", "3", "4", "5", "6", "7", "8", "9"}

\* the characters the regular expression /[^a-zA-Z0-9_.-]/ does not match
ValidNameChars == Lower \cup Upper \cup Digits \cup {"_", ".", "-"}

\* name.replace(/[^a-zA-Z0-9_.-]/g, '_')
ReplaceInvalidChars(name) == [i \in 1..Len(name) |-> IF name[i] \in ValidNameChars THEN name[i] ELSE "_"]

-----------------------------------------------------------------------------
\* Status and discovery-state values (mcp-client.ts:26-45)

DISCONNECTED == "disconnected"

CONNECTING == "connecting"

CONNECTED == "connected"

NOT_STARTED == "not_started"

IN_PROGRESS == "in_progress"

COMPLETED == "completed"

-----------------------------------------------------------------------------
\* Tool registry: primary map by public name, secondary index by server

EmptyMap == [k \in {} |-> k]

EmptyToolRegistry == [tools |-> EmptyMap, byServer |-> EmptyMap]

\* ToolRegistry.getTool(name)
getTool(reg, name) == IF name \in DOMAIN reg.tools THEN Some(reg.tools[name]) ELSE Undefined

\* ToolRegistry.getToolsByServer(serverName)
getToolsByServer(reg, serverName) == IF serverName \in DOMAIN reg.byServer THEN reg.byServer[serverName] ELSE <<>>

\* ToolRegistry.registerTool(tool): last write wins in the primary map,
\* append to the owning server's bucket
registerTool(reg, tool) ==
    [tools |-> [n \in DOMAIN reg.tools \cup {tool.name} |-> IF n = tool.name THEN tool ELSE reg.tools[n]],
     byServer |-> [s \in DOMAIN reg.byServer \cup {tool.serverName} |->
                     IF s = tool.serverName THEN Append(getToolsByServer(reg, s), tool) ELSE reg.byServer[s]]]

\* new DiscoveredMCPTool(callable, serverName, name, description, schema, serverToolName, ...)
DiscoveredMCPTool(serverName, name, serverToolName) == [serverName |-> serverName, name |-> name, serverToolName |-> serverToolName]

-----------------------------------------------------------------------------
\* Per-tool filtering and name resolution (connectAndDiscover, the loop body)

MaxToolNameLength == 63

KeptHead == 28

KeptTail == 32

\* includeTools / excludeTools decision for one tool name
IsEnabled_NoDeny(cfg, toolName) ==
    IF ~cfg.includeTools.defined THEN TRUE
    ELSE \E i \in 1..Len(cfg.includeTools.value) :
            LET tool == cfg.includeTools.value[i]
            IN  tool = toolName \/ StartsWith(tool, toolName \o <<"(">>)

IsEnabled_AnyPrefix(cfg, toolName) ==
    LET byInclude == IF ~cfg.includeTools.defined THEN TRUE
                     ELSE \E i \in 1..Len(cfg.includeTools.value) :
                            LET tool == cfg.includeTools.value[i]
                            IN  tool = toolName \/ StartsWith(tool, toolName)
    IN  IF cfg.excludeTools.defined /\ Includes(cfg.excludeTools.value, toolName) THEN FALSE ELSE byInclude

IsEnabled(cfg, toolName) ==
    LET byInclude == IF ~cfg.includeTools.defined THEN TRUE
                     ELSE \E i \in 1..Len(cfg.includeTools.value) :
                            LET tool == cfg.includeTools.value[i]
                            IN  tool = toolName \/ StartsWith(tool, toolName \o <<"(">>)
    IN  IF cfg.excludeTools.defined /\ Includes(cfg.excludeTools.value, toolName) THEN FALSE ELSE byInclude

\* the name before the length check: invalid characters replaced, then the
\* server prefix when the replaced name is already a registered tool
ToolNameCandidate_PrefixAlways(mcpServerName, funcDeclName, reg) == mcpServerName \o <<"_", "_">> \o ReplaceInvalidChars(funcDeclName)

ToolNameCandidate_NeverPrefix(mcpServerName, funcDeclName, reg) == ReplaceInvalidChars(funcDeclName)

ToolNameCandidate(mcpServerName, funcDeclName, reg) ==
    LET replaced == ReplaceInvalidChars(funcDeclName)
    IN  IF getTool(reg, replaced).defined THEN mcpServerName \o <<"_", "_">> \o replaced ELSE replaced

\* "If longer than 63 characters, replace middle with '___'"
ReplaceMiddle_Tail31(name) ==
    IF Len(name) > MaxToolNameLength
    THEN Slice(name, 0, KeptHead) \o <<"_", "_", "_">> \o SliceFrom(name, 1 - KeptTail)
    ELSE name

ReplaceMiddle(name) ==
    IF Len(name) > MaxToolNameLength
    THEN Slice(name, 0, KeptHead) \o <<"_", "_", "_">> \o SliceFrom(name, 0 - KeptTail)
    ELSE name

ToolNameForModel(mcpServerName, funcDeclName, reg) == ReplaceMiddle(ToolNameCandidate(mcpServerName, funcDeclName, reg))

\* one iteration of the loop over tool.functionDeclarations
RegisterFunctionDeclaration(mcpServerName, cfg, funcDecl, reg) ==
    IF ~Truthy(funcDecl) THEN reg
    ELSE IF ~IsEnabled(cfg, funcDecl.value) THEN reg
    ELSE registerTool(reg, DiscoveredMCPTool(mcpServerName, ToolNameForModel(mcpServerName, funcDecl.value, reg), funcDecl.value))

RECURSIVE RegisterFunctionDeclarations(_, _, _, _)
RegisterFunctionDeclarations(mcpServerName, cfg, decls, reg) ==
    IF decls = <<>> THEN reg
    ELSE RegisterFunctionDeclarations(mcpServerName, cfg, Tail(decls),
            RegisterFunctionDeclaration(mcpServerName, cfg, Head(decls), reg))

\* promptToSlashCommandName(serverName, promptName)  (mcp-prompt.ts)
promptToSlashCommandName_NoPrefix(serverName, promptName) ==
    LET commandName == ReplaceInvalidChars(promptName)
    IN  IF Len(commandName) > MaxToolNameLength
        THEN Slice(commandName, 0, KeptHead) \o <<"_", "_", "_">> \o SliceFrom(commandName, 0 - KeptTail)
        ELSE commandName

promptToSlashCommandName(serverName, promptName) ==
    LET commandName == serverName \o <<"_", "_">> \o ReplaceInvalidChars(promptName)
    IN  IF Len(commandName) > MaxToolNameLength
        THEN Slice(commandName, 0, KeptHead) \o <<"_", "_", "_">> \o SliceFrom(commandName, 0 - KeptTail)
        ELSE commandName

-----------------------------------------------------------------------------
\* Status map and prompt registry of mcp-client.ts

\* updateMCPServerStatus(serverName, status): the write to the status map
updateMCPServerStatus_EveryKey(statuses, serverName, status) == [k \in DOMAIN statuses \cup {serverName} |-> status]

updateMCPServerStatus(statuses, serverName, status) == [k \in DOMAIN statuses \cup {serverName} |-> IF k = serverName THEN status ELSE statuses[k]]

\* getMCPServerStatus(serverName)
getMCPServerStatus(serverName) ==
    IF serverName \in DOMAIN mcpServerStatusesInternal THEN mcpServerStatusesInternal[serverName] ELSE DISCONNECTED

\* `${mcpServerName}:${prompt.name}`
PromptKey(mcpServerName, promptName) == mcpServerName \o <<":">> \o promptName

\* one iteration of the loop over promptsResult.prompts
RegisterPrompt(mcpServerName, prompt, registry) ==
    IF ~Truthy(prompt) THEN registry
    ELSE LET promptKey == PromptKey(mcpServerName, prompt.value)
         IN  [k \in DOMAIN registry \cup {promptKey} |->
                IF k = promptKey THEN [name |-> prompt.value, serverName |-> mcpServerName] ELSE registry[k]]

RECURSIVE RegisterPrompts(_, _, _)
RegisterPrompts(mcpServerName, prompts, registry) ==
    IF prompts = <<>> THEN registry
    ELSE RegisterPrompts(mcpServerName, Tail(prompts), RegisterPrompt(mcpServerName, Head(prompts), registry))

\* hasTools (mcp-client.ts:452)
HasTools(reg, mcpServerName) == Len(getToolsByServer(reg, mcpServerName)) > 0

\* hasPrompts (mcp-client.ts:453)
HasPrompts(registry, mcpServerName) == \E k \in DOMAIN registry : registry[k].serverName = mcpServerName

-----------------------------------------------------------------------------
\* shell-quote's parse(cmd): words separated by blanks; a shell operator
\* is returned as an object, not as a string

ShellOps == {"|", "&", ";", "<", ">"}

RECURSIVE ParseFrom(_, _, _)
ParseFrom(cmd, i, word) ==
    LET flush == IF word = <<>> THEN <<>> ELSE <<[isString |-> TRUE, text |-> word]>>
    IN  IF i > Len(cmd) THEN flush
        ELSE IF cmd[i] = " " THEN flush \o ParseFrom(cmd, i + 1, <<>>)
        ELSE IF cmd[i] \in ShellOps THEN flush \o <<[isString |-> FALSE, text |-> <<cmd[i]>>]>> \o ParseFrom(cmd, i + 1, <<>>)
        ELSE ParseFrom(cmd, i + 1, Append(word, cmd[i]))

parse(cmd) == ParseFrom(cmd, 1, <<>>)

\* args.some((arg) => typeof arg !== 'string')
ParseFails(args) == \E i \in 1..Len(args) : ~args[i].isString

-----------------------------------------------------------------------------
\* Inputs of the orchestration specification

MaxDecls == 1

MaxPrompts == 1

MaxTools == 2

\* the calls of discoverMcpTools made one after another
Calls == {"c1"}

\* the calls of discoverMcpTools that may be active at the same time
AllCalls == {"c1", "c2"}

SrvMcp == <<"m", "c", "p">>

SrvS1 == <<"s", "1">>

Servers == {SrvMcp, SrvS1}

NameA == <<"a">>

UrlOk == <<"h", ":", "x">>

UrlBad == <<"x">>

Cmd == <<"r", "u", "n">>

\* the transport fields of a server configuration
TransportFields ==
    { [httpUrl |-> Some(UrlOk), url |-> Undefined, command |-> Undefined],
      [httpUrl |-> Some(UrlBad), url |-> Undefined, command |-> Undefined],
      [httpUrl |-> Undefined, url |-> Some(UrlOk), command |-> Some(Cmd)],
      [httpUrl |-> Undefined, url |-> Undefined, command |-> Some(Cmd)],
      [httpUrl |-> Undefined, url |-> Undefined, command |-> Undefined] }

NoFilter == [includeTools |-> Undefined, excludeTools |-> Undefined]

FilterFields == { NoFilter }

ServerConfigs ==
    { [httpUrl |-> t.httpUrl, url |-> t.url, command |-> t.command,
       includeTools |-> f.includeTools, excludeTools |-> f.excludeTools] : t \in TransportFields, f \in FilterFields }

\* the mcpServerCommand argument: absent, a command, a command with a
\* shell operator, a blank string
ServerCommands == { Undefined, Some(Cmd), Some(<<"r", " ", "|">>), Some(<<" ">>) }

SeqsUpTo(S, n) == UNION { [1..k -> S] : k \in 0..n }

\* what the server answers to the tool-list request
ToolReplies ==
    { [kind |-> "list", list |-> l] : l \in SeqsUpTo({Some(NameA)}, MaxDecls) }
    \cup { [kind |-> "invalid", list |-> <<>>], [kind |-> "reject", list |-> <<>>] }

\* what the server answers to prompts/list
PromptReplies ==
    { [kind |-> "list", list |-> l] : l \in SeqsUpTo({Some(NameA)}, MaxPrompts) }
    \cup { [kind |-> "invalid", list |-> <<>>], [kind |-> "reject", list |-> <<>>] }

-----------------------------------------------------------------------------
\* connectAndDiscover

\* new URL(x) throws unless x is an absolute URL (has a scheme)
UrlIsValid(u) == \E i \in 1..Len(u) : u[i] = ":" /\ i > 1

\* the transport chosen for a configuration (mcp-client.ts:225-259):
\* "throw" when the URL constructor throws, "invalid" when no field is set
SelectTransport(cfg) ==
    IF Truthy(cfg.httpUrl) THEN (IF UrlIsValid(cfg.httpUrl.value) THEN "http" ELSE "throw")
    ELSE IF Truthy(cfg.url) THEN (IF UrlIsValid(cfg.url.value) THEN "sse" ELSE "throw")
    ELSE IF Truthy(cfg.command) THEN "stdio"
    ELSE "invalid"

IdleTask == [pc |-> "idle", transport |-> "none", cfg |-> NoFilter, promptsCap |-> FALSE, handler |-> FALSE, erred |-> FALSE]

FinalPcs == {"skipped", "connectFailed", "kept", "closed", "rejected"}

\* the part of connectAndDiscover that runs before its first await
\* (mcp-client.ts:222-281)
FirstSegment(cfg) ==
    LET kind == SelectTransport(cfg)
    IN  IF kind = "invalid" THEN [IdleTask EXCEPT !.pc = "skipped"]
        ELSE IF kind = "throw" THEN [IdleTask EXCEPT !.pc = "rejected"]
        ELSE [IdleTask EXCEPT !.pc = "connecting", !.transport = kind,
                              !.cfg = [includeTools |-> cfg.includeTools, excludeTools |-> cfg.excludeTools]]

StatusAfterFirstSegment_NoSkipWrite(cfg) == CONNECTING

StatusAfterFirstSegment(cfg) == IF SelectTransport(cfg) = "invalid" THEN DISCONNECTED ELSE CONNECTING

\* a task whose promise is settled
Settled(t) == t.pc \in FinalPcs \cup {"idle"}

\* the continuation of `await Promise.all(...)` is ready to run
JoinRejects(c) == call[c].pc = "awaiting" /\ \E s \in Servers : task[c, s].pc = "rejected"

JoinResolves(c) == call[c].pc = "awaiting" /\ \A s \in Servers : task[c, s].pc \in FinalPcs \cup {"idle"} /\ task[c, s].pc # "rejected"

\* promise continuations run before the next I/O event is delivered
NoMicrotask == \A c \in AllCalls : ~JoinRejects(c) /\ ~JoinResolves(c)

RECURSIVE BucketTotal(_, _)
BucketTotal(reg, servers) ==
    IF servers = {} THEN 0
    ELSE LET s == CHOOSE x \in servers : TRUE
         IN  Len(reg.byServer[s]) + BucketTotal(reg, servers \ {s})

\* number of registerTool calls so far
ToolCount(reg) == BucketTotal(reg, DOMAIN reg.byServer)

\* lines 447-470 up to the await of transport.close(): keep the connection
\* when the server owns a tool or a prompt, else start closing it
IdleCheck(t, reg, registry, mcpServerName) ==
    LET rest == [t EXCEPT !.cfg = NoFilter, !.promptsCap = FALSE]
    IN  IF ~HasTools(reg, mcpServerName) /\ ~HasPrompts(registry, mcpServerName)
        THEN [rest EXCEPT !.pc = "closing"]
        ELSE [rest EXCEPT !.pc = "kept"]

\* no discovery block has run yet
NothingResolved ==
    [kind |-> "none", serverName |-> <<>>, cfg |-> NoFilter, list |-> <<>>,
     toolsBefore |-> EmptyToolRegistry, promptsBefore |-> EmptyMap, out |-> <<>>]

\* the record of a list request of connectAndDiscover that failed
StepRecord(kind, mcpServerName) == [NothingResolved EXCEPT !.kind = kind, !.serverName = mcpServerName]

\* no status write has been made yet
NothingNotified == [written |-> FALSE, serverName |-> <<>>, status |-> DISCONNECTED, before |-> <<>>, log |-> <<>>, threw |-> FALSE]

\* MCPPromptRegistry (mcp-prompt-registry.ts).  `prompts` is the Map in its
\* iteration order, one entry per name; `promptsByServer` maps a server name
\* to its array.

EmptyPromptRegistry == [prompts |-> <<>>, promptsByServer |-> EmptyMap]

\* Map.prototype.set: an existing key keeps its position and gets the value
MapSet_FirstWins(entries, prompt) ==
    IF \E i \in 1..Len(entries) : entries[i].name = prompt.name
    THEN entries
    ELSE Append(entries, prompt)

MapSet(entries, prompt) ==
    IF \E i \in 1..Len(entries) : entries[i].name = prompt.name
    THEN [i \in 1..Len(entries) |-> IF entries[i].name = prompt.name THEN prompt ELSE entries[i]]
    ELSE Append(entries, prompt)

registerPrompt(reg, prompt) ==
    LET bucket == IF prompt.serverName \in DOMAIN reg.promptsByServer THEN reg.promptsByServer[prompt.serverName] ELSE <<>>
    IN  [prompts |-> MapSet(reg.prompts, prompt),
         promptsByServer |-> [k \in DOMAIN reg.promptsByServer \cup {prompt.serverName} |->
                                 IF k = prompt.serverName THEN Append(bucket, prompt) ELSE reg.promptsByServer[k]]]

getPrompt(reg, name) ==
    IF \E i \in 1..Len(reg.prompts) : reg.prompts[i].name = name
    THEN Some(reg.prompts[CHOOSE i \in 1..Len(reg.prompts) : reg.prompts[i].name = name])
    ELSE Undefined

getAllPrompts(reg) == reg.prompts

getPromptsByServer(reg, serverName) ==
    IF serverName \in DOMAIN reg.promptsByServer THEN reg.promptsByServer[serverName] ELSE <<>>

clear(reg) == [prompts |-> <<>>, promptsByServer |-> EmptyMap]

size(reg) == Len(reg.prompts)

Init ==
    /\ promptRegistry = EmptyPromptRegistry
    /\ mcpDiscoveryState = NOT_STARTED
    /\ mcpServerStatusesInternal = EmptyMap
    /\ mcpPromptsRegistry = EmptyMap
    /\ toolRegistry = EmptyToolRegistry
    /\ call = [c \in AllCalls |-> [pc |-> "idle", launched |-> {}, command |-> FALSE]]
    /\ task = [x \in AllCalls \X Servers |-> IdleTask]
    /\ orphanHandlers = {}
    /\ statusChangeListeners = <<>>
    /\ notified = NothingNotified
    /\ resolved = NothingResolved

\* the server map after the optional synthesized 'mcp' entry (lines 179-190)
WithCommandServer(mcpServers, args) ==
    LET entry == [httpUrl |-> Undefined, url |-> Undefined,
                  command |-> IF Len(args) > 0 THEN Some(args[1].text) ELSE Undefined,
                  includeTools |-> Undefined, excludeTools |-> Undefined]
    IN  [n \in DOMAIN mcpServers \cup {SrvMcp} |-> IF n = SrvMcp THEN entry ELSE mcpServers[n]]

\* discoverMcpTools up to `await Promise.all(discoveryPromises)`; when the
\* command string does not parse, the whole call (lines 176-204)
DiscoverMcpToolsCall(c, mcpServers, mcpServerCommand) ==
    /\ NoMicrotask
    /\ call[c].pc \in {"idle", "returned", "thrown"}
    /\ \A s \in Servers : Settled(task[c, s])
    /\ ToolCount(toolRegistry) < MaxTools
    /\ orphanHandlers' = orphanHandlers \cup {s \in Servers : task[c, s].handler /\ task[c, s].pc # "closed"}
    /\ UNCHANGED <<mcpPromptsRegistry, toolRegistry, statusChangeListeners, notified, promptRegistry>>
    /\ IF Truthy(mcpServerCommand) /\ ParseFails(parse(mcpServerCommand.value))
       THEN /\ mcpDiscoveryState' = COMPLETED
            /\ call' = [call EXCEPT ![c] = [pc |-> "thrown", launched |-> {}, command |-> TRUE]]
            /\ task' = [x \in AllCalls \X Servers |-> IF x[1] = c THEN IdleTask ELSE task[x]]
            /\ UNCHANGED mcpServerStatusesInternal
       ELSE LET servers == IF Truthy(mcpServerCommand)
                           THEN WithCommandServer(mcpServers, parse(mcpServerCommand.value))
                           ELSE mcpServers
            IN  /\ mcpDiscoveryState' = IN_PROGRESS
                /\ call' = [call EXCEPT ![c] = [pc |-> "awaiting", launched |-> DOMAIN servers, command |-> Truthy(mcpServerCommand)]]
                /\ task' = [x \in AllCalls \X Servers |->
                              IF x[1] # c THEN task[x]
                              ELSE IF x[2] \in DOMAIN servers THEN FirstSegment(servers[x[2]])
                              ELSE IdleTask]
                /\ mcpServerStatusesInternal' =
                      [k \in DOMAIN mcpServerStatusesInternal \cup DOMAIN servers |->
                          IF k \in DOMAIN servers THEN StatusAfterFirstSegment(servers[k])
                          ELSE mcpServerStatusesInternal[k]]

DiscoverMcpTools(c, mcpServers, mcpServerCommand) ==
    /\ DiscoverMcpToolsCall(c, mcpServers, mcpServerCommand)
    /\ resolved' = NothingResolved

\* the catch block of discoverMcpTools after Promise.all rejected (lines 200-204)
JoinThrows_StateKept(c) ==
    /\ JoinRejects(c)
    /\ call' = [call EXCEPT ![c].pc = "thrown"]
    /\ UNCHANGED <<mcpDiscoveryState, mcpServerStatusesInternal, mcpPromptsRegistry, toolRegistry, task, orphanHandlers, statusChangeListeners, notified, promptRegistry>>
    /\ resolved' = NothingResolved

JoinThrows(c) ==
    /\ JoinRejects(c)
    /\ mcpDiscoveryState' = COMPLETED
    /\ call' = [call EXCEPT ![c].pc = "thrown"]
    /\ UNCHANGED <<mcpServerStatusesInternal, mcpPromptsRegistry, toolRegistry, task, orphanHandlers, statusChangeListeners, notified, promptRegistry>>
    /\ resolved' = NothingResolved

\* the continuation after Promise.all resolved (lines 198-199)
JoinReturns(c) ==
    /\ JoinResolves(c)
    /\ mcpDiscoveryState' = COMPLETED
    /\ call' = [call EXCEPT ![c].pc = "returned"]
    /\ UNCHANGED <<mcpServerStatusesInternal, mcpPromptsRegistry, toolRegistry, task, orphanHandlers, statusChangeListeners, notified, promptRegistry>>
    /\ resolved' = NothingResolved

\* mcpClient.connect resolved: lines 283, 308-331 (tools advertised),
\* 408-410 (only prompts advertised) or 452-466 (neither)
ConnectResolves(c, s, capabilities) ==
    /\ NoMicrotask
    /\ task[c, s].pc = "connecting"
    /\ mcpServerStatusesInternal' = updateMCPServerStatus(mcpServerStatusesInternal, s, CONNECTED)
    /\ LET t == [task[c, s] EXCEPT !.handler = TRUE, !.transport = "open"]
       IN  IF capabilities.tools
           THEN task' = [task EXCEPT ![c, s] = [t EXCEPT !.pc = "listingTools", !.promptsCap = capabilities.prompts]]
           ELSE IF capabilities.prompts
           THEN task' = [task EXCEPT ![c, s] = [t EXCEPT !.pc = "listingPrompts"]]
           ELSE task' = [task EXCEPT ![c, s] = IdleCheck(t, toolRegistry, mcpPromptsRegistry, s)]
    /\ UNCHANGED <<mcpDiscoveryState, mcpPromptsRegistry, toolRegistry, call, orphanHandlers, statusChangeListeners, notified, promptRegistry>>
    /\ resolved' = NothingResolved

\* mcpClient.connect rejected or timed out (lines 284-306)
ConnectRejects_StatusKept(c, s) ==
    /\ NoMicrotask
    /\ task[c, s].pc = "connecting"
    /\ task' = [task EXCEPT ![c, s] = [@ EXCEPT !.pc = "connectFailed", !.cfg = NoFilter, !.transport = "none"]]
    /\ UNCHANGED <<mcpDiscoveryState, mcpServerStatusesInternal, mcpPromptsRegistry, toolRegistry, call, orphanHandlers, statusChangeListeners, notified, promptRegistry>>
    /\ resolved' = NothingResolved

ConnectRejects(c, s) ==
    /\ NoMicrotask
    /\ task[c, s].pc = "connecting"
    /\ mcpServerStatusesInternal' = updateMCPServerStatus(mcpServerStatusesInternal, s, DISCONNECTED)
    /\ task' = [task EXCEPT ![c, s] = [@ EXCEPT !.pc = "connectFailed", !.cfg = NoFilter, !.transport = "none"]]
    /\ UNCHANGED <<mcpDiscoveryState, mcpPromptsRegistry, toolRegistry, call, orphanHandlers, statusChangeListeners, notified, promptRegistry>>
    /\ resolved' = NothingResolved

\* mcpCallableTool.tool() settled: lines 333-405, then 408-410 or 452-466
ToolsSettle_FailureSkipsPrompts(c, s, reply) ==
    /\ NoMicrotask
    /\ task[c, s].pc = "listingTools"
    /\ LET t == task[c, s]
           reg == IF reply.kind = "list"
                  THEN RegisterFunctionDeclarations(s, t.cfg, reply.list, toolRegistry)
                  ELSE toolRegistry
       IN  /\ toolRegistry' = reg
           /\ IF t.promptsCap /\ reply.kind # "reject"
              THEN task' = [task EXCEPT ![c, s] = [t EXCEPT !.pc = "listingPrompts", !.promptsCap = FALSE]]
              ELSE task' = [task EXCEPT ![c, s] = IdleCheck(t, reg, mcpPromptsRegistry, s)]
    /\ UNCHANGED <<mcpDiscoveryState, mcpServerStatusesInternal, mcpPromptsRegistry, call, orphanHandlers, statusChangeListeners, notified, promptRegistry>>
    /\ resolved' = IF reply.kind = "reject" THEN StepRecord("toolsFailed", s) ELSE NothingResolved

ToolsSettle(c, s, reply) ==
    /\ NoMicrotask
    /\ task[c, s].pc = "listingTools"
    /\ LET t == task[c, s]
           reg == IF reply.kind = "list"
                  THEN RegisterFunctionDeclarations(s, t.cfg, reply.list, toolRegistry)
                  ELSE toolRegistry
       IN  /\ toolRegistry' = reg
           /\ IF t.promptsCap
              THEN task' = [task EXCEPT ![c, s] = [t EXCEPT !.pc = "listingPrompts", !.promptsCap = FALSE]]
              ELSE task' = [task EXCEPT ![c, s] = IdleCheck(t, reg, mcpPromptsRegistry, s)]
    /\ UNCHANGED <<mcpDiscoveryState, mcpServerStatusesInternal, mcpPromptsRegistry, call, orphanHandlers, statusChangeListeners, notified, promptRegistry>>
    /\ resolved' = IF reply.kind = "reject" THEN StepRecord("toolsFailed", s) ELSE NothingResolved

\* mcpClient.listPrompts() settled: lines 411-445, then 452-466
PromptsSettle_FailureCloses(c, s, reply) ==
    /\ NoMicrotask
    /\ task[c, s].pc = "listingPrompts"
    /\ LET t == task[c, s]
           registry == IF reply.kind = "list"
                       THEN RegisterPrompts(s, reply.list, mcpPromptsRegistry)
                       ELSE mcpPromptsRegistry
       IN  /\ mcpPromptsRegistry' = registry
           /\ IF reply.kind = "reject"
              THEN task' = [task EXCEPT ![c, s] = [t EXCEPT !.pc = "closing", !.cfg = NoFilter, !.promptsCap = FALSE]]
              ELSE task' = [task EXCEPT ![c, s] = IdleCheck(t, toolRegistry, registry, s)]
    /\ UNCHANGED <<mcpDiscoveryState, mcpServerStatusesInternal, toolRegistry, call, orphanHandlers, statusChangeListeners, notified, promptRegistry>>
    /\ resolved' = IF reply.kind = "reject" THEN StepRecord("promptsFailed", s) ELSE NothingResolved

PromptsSettle(c, s, reply) ==
    /\ NoMicrotask
    /\ task[c, s].pc = "listingPrompts"
    /\ LET t == task[c, s]
           registry == IF reply.kind = "list"
                       THEN RegisterPrompts(s, reply.list, mcpPromptsRegistry)
                       ELSE mcpPromptsRegistry
       IN  /\ mcpPromptsRegistry' = registry
           /\ task' = [task EXCEPT ![c, s] = IdleCheck(t, toolRegistry, registry, s)]
    /\ UNCHANGED <<mcpDiscoveryState, mcpServerStatusesInternal, toolRegistry, call, orphanHandlers, statusChangeListeners, notified, promptRegistry>>
    /\ resolved' = IF reply.kind = "reject" THEN StepRecord("promptsFailed", s) ELSE NothingResolved

\* transport.close() resolved (lines 466-468)
CloseResolves(c, s) ==
    /\ NoMicrotask
    /\ task[c, s].pc = "closing"
    /\ mcpServerStatusesInternal' = updateMCPServerStatus(mcpServerStatusesInternal, s, DISCONNECTED)
    /\ task' = [task EXCEPT ![c, s] = [@ EXCEPT !.pc = "closed", !.transport = "none"]]
    /\ UNCHANGED <<mcpDiscoveryState, mcpPromptsRegistry, toolRegistry, call, orphanHandlers, statusChangeListeners, notified, promptRegistry>>
    /\ resolved' = NothingResolved

\* transport.close() rejected: the await at line 466 throws out of the task
CloseRejects(c, s) ==
    /\ NoMicrotask
    /\ task[c, s].pc = "closing"
    /\ task' = [task EXCEPT ![c, s] = [@ EXCEPT !.pc = "rejected"]]
    /\ UNCHANGED <<mcpDiscoveryState, mcpServerStatusesInternal, mcpPromptsRegistry, toolRegistry, call, orphanHandlers, statusChangeListeners, notified, promptRegistry>>
    /\ resolved' = NothingResolved

\* mcpClient.onerror of a client of this run (lines 308-312)
ErrorEvent_StatusKept(c, s) ==
    /\ NoMicrotask
    /\ task[c, s].handler
    /\ task[c, s].pc # "closed"
    /\ task' = [task EXCEPT ![c, s] = [@ EXCEPT !.erred = TRUE]]
    /\ UNCHANGED <<mcpDiscoveryState, mcpServerStatusesInternal, mcpPromptsRegistry, toolRegistry, call, orphanHandlers, statusChangeListeners, notified, promptRegistry>>
    /\ resolved' = NothingResolved

ErrorEvent(c, s) ==
    /\ NoMicrotask
    /\ task[c, s].handler
    /\ task[c, s].pc # "closed"
    /\ mcpServerStatusesInternal' = updateMCPServerStatus(mcpServerStatusesInternal, s, DISCONNECTED)
    /\ task' = [task EXCEPT ![c, s] = [@ EXCEPT !.erred = TRUE]]
    /\ UNCHANGED <<mcpDiscoveryState, mcpPromptsRegistry, toolRegistry, call, orphanHandlers, statusChangeListeners, notified, promptRegistry>>
    /\ resolved' = NothingResolved

\* mcpClient.onerror of a client kept open by an earlier run
OrphanErrorEvent(s) ==
    /\ NoMicrotask
    /\ s \in orphanHandlers
    /\ mcpServerStatusesInternal' = updateMCPServerStatus(mcpServerStatusesInternal, s, DISCONNECTED)
    /\ UNCHANGED <<mcpDiscoveryState, mcpPromptsRegistry, toolRegistry, call, task, orphanHandlers, statusChangeListeners, notified, promptRegistry>>
    /\ resolved' = NothingResolved

Start ==
    \E c \in Calls : \E names \in SUBSET Servers : \E mcpServers \in [names -> ServerConfigs] : \E cmd \in ServerCommands :
        DiscoverMcpTools(c, mcpServers, cmd)

Next ==
    \/ Start
    \/ \E c \in Calls : JoinThrows(c)
    \/ \E c \in Calls : JoinReturns(c)
    \/ \E c \in Calls : \E s \in Servers : \E capabilities \in [tools : BOOLEAN, prompts : BOOLEAN] : ConnectResolves(c, s, capabilities)
    \/ \E c \in Calls : \E s \in Servers : ConnectRejects(c, s)
    \/ \E c \in Calls : \E s \in Servers : \E reply \in ToolReplies : ToolsSettle(c, s, reply)
    \/ \E c \in Calls : \E s \in Servers : \E reply \in PromptReplies : PromptsSettle(c, s, reply)
    \/ \E c \in Calls : \E s \in Servers : CloseResolves(c, s)
    \/ \E c \in Calls : \E s \in Servers : CloseRejects(c, s)
    \/ \E c \in Calls : \E s \in Servers : ErrorEvent(c, s)
    \/ \E s \in Servers : OrphanErrorEvent(s)

Spec == Init /\ [][Next]_vars

-----------------------------------------------------------------------------
\* The synchronous discovery blocks of connectAndDiscover taken on their own:
\* each step runs one block on a server reply and records its inputs.

\* lines 339-395 for one tool-list reply
DiscoverToolsStep(mcpServerName, cfg, decls, bound) ==
    /\ ToolCount(toolRegistry) < bound
    /\ toolRegistry' = RegisterFunctionDeclarations(mcpServerName, cfg, decls, toolRegistry)
    /\ resolved' = [kind |-> "tools", serverName |-> mcpServerName, cfg |-> cfg, list |-> decls,
                    toolsBefore |-> toolRegistry, promptsBefore |-> mcpPromptsRegistry, out |-> <<>>]
    /\ UNCHANGED <<mcpDiscoveryState, mcpServerStatusesInternal, mcpPromptsRegistry, call, task, orphanHandlers, statusChangeListeners, notified, promptRegistry>>

\* lines 413-430 for one prompt-list reply
DiscoverPromptsStep(mcpServerName, cfg, prompts) ==
    /\ mcpPromptsRegistry' = RegisterPrompts(mcpServerName, prompts, mcpPromptsRegistry)
    /\ resolved' = [kind |-> "prompts", serverName |-> mcpServerName, cfg |-> cfg, list |-> prompts,
                    toolsBefore |-> toolRegistry, promptsBefore |-> mcpPromptsRegistry, out |-> <<>>]
    /\ UNCHANGED <<mcpDiscoveryState, mcpServerStatusesInternal, toolRegistry, call, task, orphanHandlers, statusChangeListeners, notified, promptRegistry>>

\* a call of promptToSlashCommandName
CommandNameStep(serverName, promptName) ==
    /\ resolved' = [kind |-> "command", serverName |-> serverName, cfg |-> NoFilter, list |-> <<Some(promptName)>>,
                    toolsBefore |-> toolRegistry, promptsBefore |-> mcpPromptsRegistry,
                    out |-> promptToSlashCommandName(serverName, promptName)]
    /\ UNCHANGED <<mcpDiscoveryState, mcpServerStatusesInternal, mcpPromptsRegistry, toolRegistry, call, task, orphanHandlers, statusChangeListeners, notified, promptRegistry>>

\* Inputs of the name-resolution specification

MaxNameTools == 2

SrvSp == <<"s", " ", "2">>

NameServers == {SrvS1, SrvSp}

NameSpaced == <<"a", " ", "b">>

NameUnder == <<"a", "_", "b">>

Name62 == Rep("b", 62)

Name63 == Rep("d", 63)

Name64 == Rep("a", 64)

Name65 == Rep("a", 65)

NameMarked == Rep("c", 10) \o <<"_", "_", "_">> \o Rep("c", 51)

RawNames == {NameSpaced, NameUnder, Name62, Name63, Name64, Name65, NameMarked}

NextNames ==
    \/ \E s \in NameServers : \E n \in RawNames : DiscoverToolsStep(s, NoFilter, <<Some(n)>>, MaxNameTools)
    \/ \E s \in NameServers : \E n \in RawNames : CommandNameStep(s, n)

SpecNames == Init /\ [][NextNames]_vars

\* Inputs of the filtering specification

MaxFilterTools == 2

MaxFilterDecls == 1

NameB == <<"b">>

FilterConfigs ==
    { [includeTools |-> i, excludeTools |-> e] :
        i \in {Undefined, Some(<<NameA \o <<"(", "x", ")">>>>), Some(<<NameA \o NameB>>), Some(<<NameB, NameA>>)},
        e \in {Undefined, Some(<<NameA>>)} }

FilterDecls == {Some(NameA), Some(NameB), Some(<<>>), Undefined}

NextFilter ==
    \/ \E cfg \in FilterConfigs : \E decls \in SeqsUpTo(FilterDecls, MaxFilterDecls) : DiscoverToolsStep(SrvS1, cfg, decls, MaxFilterTools)
    \/ \E cfg \in FilterConfigs : \E prompts \in SeqsUpTo({Some(NameA), Some(NameSpaced), Undefined}, MaxFilterDecls) : DiscoverPromptsStep(SrvS1, cfg, prompts)

SpecFilter == Init /\ [][NextFilter]_vars

-----------------------------------------------------------------------------
\* The part of connectAndDiscover before its first await (lines 222-281)
\* taken on its own, over every combination of transport fields

AllTransportFields ==
    [httpUrl : {Undefined, Some(UrlOk), Some(UrlBad)}, url : {Undefined, Some(UrlOk), Some(UrlBad)}, command : {Undefined, Some(Cmd)}]

FirstSegmentStep(c, mcpServerName, fields) ==
    LET cfg == [httpUrl |-> fields.httpUrl, url |-> fields.url, command |-> fields.command,
                includeTools |-> Undefined, excludeTools |-> Undefined]
    IN  /\ mcpServerStatusesInternal' = updateMCPServerStatus(mcpServerStatusesInternal, mcpServerName, StatusAfterFirstSegment(cfg))
        /\ task' = [task EXCEPT ![c, mcpServerName] = FirstSegment(cfg)]
        /\ resolved' = [NothingResolved EXCEPT !.kind = "transport", !.serverName = mcpServerName, !.cfg = fields]
        /\ UNCHANGED <<mcpDiscoveryState, mcpPromptsRegistry, toolRegistry, call, orphanHandlers, statusChangeListeners, notified, promptRegistry>>

NextTransport == \E c \in Calls : \E s \in Servers : \E fields \in AllTransportFields : FirstSegmentStep(c, s, fields)

SpecTransport == Init /\ [][NextTransport]_vars

-----------------------------------------------------------------------------
\* The start of discoverMcpTools (lines 176-196) taken on its own, with its
\* arguments recorded; connects are left pending or fail

DiscoverMcpToolsStep(c, mcpServers, mcpServerCommand) ==
    /\ DiscoverMcpToolsCall(c, mcpServers, mcpServerCommand)
    /\ resolved' = [kind |-> "start", call |-> c, mcpServers |-> mcpServers, mcpServerCommand |-> mcpServerCommand,
                    statusesBefore |-> mcpServerStatusesInternal]

NextCommand ==
    \/ \E c \in Calls : \E names \in SUBSET Servers : \E mcpServers \in [names -> ServerConfigs] : \E cmd \in ServerCommands :
          DiscoverMcpToolsStep(c, mcpServers, cmd)
    \/ \E c \in Calls : JoinThrows(c)
    \/ \E c \in Calls : JoinReturns(c)
    \/ \E c \in Calls : \E s \in Servers : ConnectRejects(c, s)

SpecCommand == Init /\ [][NextCommand]_vars

-----------------------------------------------------------------------------
\* Two calls of discoverMcpTools whose awaits overlap, each for at most the
\* server s1 reached over HTTP

OverlapConfigs == {cfg \in ServerConfigs : cfg.httpUrl.defined}

NextOverlap ==
    \/ \E c \in AllCalls : \E names \in SUBSET {SrvS1} : \E mcpServers \in [names -> OverlapConfigs] :
          DiscoverMcpTools(c, mcpServers, Undefined)
    \/ \E c \in AllCalls : JoinThrows(c)
    \/ \E c \in AllCalls : JoinReturns(c)
    \/ \E c \in AllCalls : \E capabilities \in [tools : BOOLEAN, prompts : BOOLEAN] : ConnectResolves(c, SrvS1, capabilities)
    \/ \E c \in AllCalls : ConnectRejects(c, SrvS1)
    \/ \E c \in AllCalls : \E reply \in ToolReplies : ToolsSettle(c, SrvS1, reply)
    \/ \E c \in AllCalls : \E reply \in PromptReplies : PromptsSettle(c, SrvS1, reply)
    \/ \E c \in AllCalls : CloseResolves(c, SrvS1)

SpecOverlap == Init /\ [][NextOverlap]_vars

-----------------------------------------------------------------------------
\* Status listeners (lines 69-96, 120-129).  A listener is a callback of the
\* embedding program; the four listeners differ in what they do when called.

MaxListeners == 3

ListenerIds == {"plain", "once", "thrower", "adder"}

StatusValues == {DISCONNECTED, CONNECTING, CONNECTED}

\* statusChangeListeners.push(listener)
addMCPStatusChangeListener(listeners, listener) == Append(listeners, listener)

\* Array.prototype.indexOf, 0 standing for -1
IndexOf(list, x) ==
    IF Includes(list, x) THEN CHOOSE i \in 1..Len(list) : list[i] = x /\ \A j \in 1..(i - 1) : list[j] # x ELSE 0

\* removeMCPStatusChangeListener(listener): splice out the first occurrence
removeMCPStatusChangeListener(listeners, listener) ==
    LET index == IndexOf(listeners, listener)
    IN  IF index # 0 THEN SubSeq(listeners, 1, index - 1) \o SubSeq(listeners, index + 1, Len(listeners)) ELSE listeners

\* what a listener does to the listener array when it is called: "once"
\* unsubscribes itself, "adder" subscribes "plain"
ListenerBody(listeners, listener) ==
    IF listener = "once" THEN removeMCPStatusChangeListener(listeners, listener)
    ELSE IF listener = "adder" /\ Len(listeners) < MaxListeners THEN addMCPStatusChangeListener(listeners, "plain")
    ELSE listeners

\* `for (const listener of statusChangeListeners) listener(serverName, status)`
\* from array index i on: the iterator reads the live array, and a listener
\* that throws ends the loop and the call
RECURSIVE NotifyFrom(_, _, _, _)
NotifyFrom(listeners, i, log, stored) ==
    IF i > Len(listeners) THEN [listeners |-> listeners, log |-> log, threw |-> FALSE]
    ELSE LET listener == listeners[i]
             delivered == Append(log, [listener |-> listener, stored |-> stored])
         IN  IF listener = "thrower" THEN [listeners |-> listeners, log |-> delivered, threw |-> TRUE]
             ELSE NotifyFrom(ListenerBody(listeners, listener), i + 1, delivered, stored)

AddListener(listener) ==
    /\ Len(statusChangeListeners) < MaxListeners
    /\ statusChangeListeners' = addMCPStatusChangeListener(statusChangeListeners, listener)
    /\ notified' = NothingNotified
    /\ UNCHANGED <<mcpDiscoveryState, mcpServerStatusesInternal, mcpPromptsRegistry, toolRegistry, call, task, orphanHandlers, resolved, promptRegistry>>

RemoveListener(listener) ==
    /\ statusChangeListeners' = removeMCPStatusChangeListener(statusChangeListeners, listener)
    /\ notified' = NothingNotified
    /\ UNCHANGED <<mcpDiscoveryState, mcpServerStatusesInternal, mcpPromptsRegistry, toolRegistry, call, task, orphanHandlers, resolved, promptRegistry>>

\* a call of updateMCPServerStatus(serverName, status) (lines 120-129)
UpdateStatus(serverName, status) ==
    LET statuses == updateMCPServerStatus(mcpServerStatusesInternal, serverName, status)
        run == NotifyFrom(statusChangeListeners, 1, <<>>, statuses[serverName])
    IN  /\ mcpServerStatusesInternal' = statuses
        /\ statusChangeListeners' = run.listeners
        /\ notified' = [written |-> TRUE, serverName |-> serverName, status |-> status,
                        before |-> statusChangeListeners, log |-> run.log, threw |-> run.threw]
        /\ UNCHANGED <<mcpDiscoveryState, mcpPromptsRegistry, toolRegistry, call, task, orphanHandlers, resolved, promptRegistry>>

NextListeners ==
    \/ \E listener \in ListenerIds : AddListener(listener)
    \/ \E listener \in ListenerIds : RemoveListener(listener)
    \/ \E status \in StatusValues : UpdateStatus(SrvS1, status)

SpecListeners == Init /\ [][NextListeners]_vars

-----------------------------------------------------------------------------
\* Properties

Done(c) == call[c].pc \in {"returned", "thrown"}

\* a server owns at least one registered tool or prompt
Registered(s) ==
    \/ s \in DOMAIN toolRegistry.byServer /\ toolRegistry.byServer[s] # <<>>
    \/ \E k \in DOMAIN mcpPromptsRegistry : mcpPromptsRegistry[k].serverName = s

\* the server's transport was built, connected and raised no error, in this
\* run or through a client an earlier run left open
Reachable(c, s) == s \in call[c].launched /\ task[c, s].handler /\ ~task[c, s].erred /\ s \notin orphanHandlers

\* C1: once discoverMcpTools has completed, a valid and reachable server is
\* CONNECTED if and only if it owns a registered tool or prompt, and
\* DISCONNECTED otherwise.
C1_StatusIffRegistered ==
    \A c \in Calls : \A s \in Servers :
        Done(c) /\ Reachable(c, s) =>
            getMCPServerStatus(s) = (IF Registered(s) THEN CONNECTED ELSE DISCONNECTED)

\* C1 restricted to calls that return normally
C1_WhenReturned ==
    \A c \in Calls : \A s \in Servers :
        call[c].pc = "returned" /\ Reachable(c, s) =>
            getMCPServerStatus(s) = (IF Registered(s) THEN CONNECTED ELSE DISCONNECTED)

\* C2: the discovery state is IN_PROGRESS only while a discoverMcpTools call
\* is active, a starting call makes it IN_PROGRESS, a call that returns or
\* throws leaves it COMPLETED, and it never goes back to NOT_STARTED.
C2_DiscoveryStateLaw ==
    /\ [](mcpDiscoveryState = IN_PROGRESS => \E c \in Calls : call[c].pc = "awaiting")
    /\ [][ /\ \A c \in Calls : call[c].pc # "awaiting" /\ call'[c].pc = "awaiting" => mcpDiscoveryState' = IN_PROGRESS
           /\ \A c \in Calls : call[c] # call'[c] /\ call'[c].pc \in {"returned", "thrown"} => mcpDiscoveryState' = COMPLETED
           /\ mcpDiscoveryState # NOT_STARTED => mcpDiscoveryState' # NOT_STARTED ]_vars

\* a call on an empty server map has returned and left the state COMPLETED
C2_Witness ==
    \E c \in Calls : call[c].pc = "returned" /\ call[c].launched = {} /\ mcpDiscoveryState = COMPLETED

\* C3: a call without a command string never throws, whatever fails in a
\* server task.
C3_NoErrorPropagates == \A c \in Calls : ~call[c].command => call[c].pc # "thrown"

\* C4: when the call has returned or thrown, every launched server task has
\* finished.
C4_AllTasksFinished ==
    \A c \in Calls : Done(c) => \A s \in call[c].launched : task[c, s].pc \in FinalPcs

\* C4 restricted to calls that return normally
C4_WhenReturned ==
    \A c \in Calls : call[c].pc = "returned" => \A s \in call[c].launched : task[c, s].pc \in FinalPcs \ {"rejected"}

\* the tools the last tool-discovery block appended to its server's bucket
NewTools ==
    LET before == getToolsByServer(resolved.toolsBefore, resolved.serverName)
        after == getToolsByServer(toolRegistry, resolved.serverName)
    IN  SubSeq(after, Len(before) + 1, Len(after))

\* the names registered before the last block ran
NamesBefore == DOMAIN resolved.toolsBefore.tools

\* the raw name handed to the last single-name resolution
RawName == resolved.list[1].value

StatedSafe(ch) == ch \in Lower \cup Upper \cup Digits \cup {"_", ".", "-"}

\* step 1 of the resolver as the specification states it
StatedReplace(name) == [i \in 1..Len(name) |-> IF StatedSafe(name[i]) THEN name[i] ELSE "_"]

\* steps 1 and 2: the candidate before the length check
StatedToolCandidate(raw, server, names) ==
    IF StatedReplace(raw) \in names THEN server \o <<"_", "_">> \o StatedReplace(raw) ELSE StatedReplace(raw)

StatedCommandCandidate(raw, server) == server \o <<"_", "_">> \o StatedReplace(raw)

\* step 3: first 28 characters, the marker, last 32 characters
StatedTruncate(name) ==
    IF Len(name) > 63 THEN SubSeq(name, 1, 28) \o <<"_", "_", "_">> \o SubSeq(name, Len(name) - 31, Len(name)) ELSE name

Marker == <<"_", "_", "_">>

MarkerPositions(name) == {i \in 1..(Len(name) - 2) : SubSeq(name, i, i + 2) = Marker}

\* C5: every registered tool is held under its own public name: no two
\* registrations share a name and none has been overwritten.
C5_UniquePublicNames ==
    /\ ToolCount(toolRegistry) = Cardinality(DOMAIN toolRegistry.tools)
    /\ \A s \in DOMAIN toolRegistry.byServer : \A i \in 1..Len(toolRegistry.byServer[s]) :
          LET t == toolRegistry.byServer[s][i]
          IN  t.name \in DOMAIN toolRegistry.tools /\ toolRegistry.tools[t.name] = t

\* C6: every registered public tool name has at most 63 characters, all of
\* them in [A-Za-z0-9_.-].
C6_SafeBoundedNames ==
    \A n \in DOMAIN toolRegistry.tools : Len(n) <= 63 /\ \A i \in 1..Len(n) : StatedSafe(n[i])

\* C7: the public name of a discovered tool is the stated function of its raw
\* name, its server name and the names registered before: replace, prefix on
\* collision, truncate; the tool is registered under that name.
C7_ResolverSteps ==
    resolved.kind = "tools" =>
        LET name == StatedTruncate(StatedToolCandidate(RawName, resolved.serverName, NamesBefore))
            tool == [serverName |-> resolved.serverName, name |-> name, serverToolName |-> RawName]
        IN  /\ NewTools = <<tool>>
            /\ name \in DOMAIN toolRegistry.tools
            /\ toolRegistry.tools[name] = tool

\* a resolution that replaced nothing, prefixed on collision and truncated
C7_Witness ==
    /\ resolved.kind = "tools"
    /\ StatedReplace(RawName) \in NamesBefore
    /\ Len(StatedToolCandidate(RawName, resolved.serverName, NamesBefore)) > 63
    /\ Len(NewTools) = 1

\* the candidate and the result of the last resolution, tool or command name
LastCandidate ==
    IF resolved.kind = "tools" THEN StatedToolCandidate(RawName, resolved.serverName, NamesBefore)
    ELSE StatedCommandCandidate(RawName, resolved.serverName)

LastResult == IF resolved.kind = "tools" THEN NewTools[1].name ELSE resolved.out

TruncationCase == resolved.kind \in {"tools", "command"} /\ Len(LastCandidate) > 63

\* C8 as stated: a candidate longer than 63 characters yields a result of at
\* most 63 characters with the candidate's first 28 and last 32 characters
\* and exactly one occurrence of the marker.
C8_MarkerExactlyOnce ==
    TruncationCase =>
        /\ Len(LastResult) <= 63
        /\ SubSeq(LastResult, 1, 28) = SubSeq(LastCandidate, 1, 28)
        /\ SubSeq(LastResult, Len(LastResult) - 31, Len(LastResult)) = SubSeq(LastCandidate, Len(LastCandidate) - 31, Len(LastCandidate))
        /\ Cardinality(MarkerPositions(LastResult)) = 1

\* C8 amended: the result has exactly 63 characters, the candidate's first
\* 28 and last 32 characters, and the marker between them (positions 29-31);
\* the marker may occur again inside the kept parts.
C8_TruncationLaw ==
    TruncationCase =>
        /\ Len(LastResult) = 63
        /\ SubSeq(LastResult, 1, 28) = SubSeq(LastCandidate, 1, 28)
        /\ SubSeq(LastResult, 32, 63) = SubSeq(LastCandidate, Len(LastCandidate) - 31, Len(LastCandidate))
        /\ 29 \in MarkerPositions(LastResult)

\* a truncated tool name in which the marker occurs more than once
C8_Witness == TruncationCase /\ resolved.kind = "tools" /\ Cardinality(MarkerPositions(LastResult)) > 1

\* the allow-list has an entry admitting the name
StatedAllowEntryAdmits(cfg, name) ==
    /\ cfg.includeTools.defined
    /\ \E i \in 1..Len(cfg.includeTools.value) :
          LET entry == cfg.includeTools.value[i]
          IN  \/ entry = name
              \/ Len(entry) > Len(name) /\ SubSeq(entry, 1, Len(name)) = name /\ entry[Len(name) + 1] = "("

StatedDenied(cfg, name) == cfg.excludeTools.defined /\ \E i \in 1..Len(cfg.excludeTools.value) : cfg.excludeTools.value[i] = name

\* the allow-list rule, subject to the deny-list
StatedAdmitted(cfg, name) == (~cfg.includeTools.defined \/ StatedAllowEntryAdmits(cfg, name)) /\ ~StatedDenied(cfg, name)

AllowedButDenied(cfg, name) == StatedAllowEntryAdmits(cfg, name) /\ StatedDenied(cfg, name)

RECURSIVE StatedRegistered(_, _)
StatedRegistered(cfg, decls) ==
    IF decls = <<>> THEN <<>>
    ELSE LET d == Head(decls)
         IN  (IF d.defined /\ d.value # <<>> /\ StatedAdmitted(cfg, d.value) THEN <<d.value>> ELSE <<>>)
                \o StatedRegistered(cfg, Tail(decls))

\* C10: the tools registered from a reply are exactly the named declarations
\* the allow-list rule admits (every named one when no allow-list is set),
\* less those the deny-list matches, in the order listed.
C10_AllowListRule ==
    resolved.kind = "tools" =>
        [i \in 1..Len(NewTools) |-> NewTools[i].serverToolName] = StatedRegistered(resolved.cfg, resolved.list)

\* a tool registered because an allow-list entry is its name followed by "("
C10_Witness ==
    /\ resolved.kind = "tools"
    /\ resolved.cfg.includeTools.defined
    /\ Len(NewTools) > 0
    /\ \A i \in 1..Len(resolved.cfg.includeTools.value) : resolved.cfg.includeTools.value[i] # NewTools[1].serverToolName

-----------------------------------------------------------------------------
\* Properties of the discovery steps

RejectReply == [kind |-> "reject", list |-> <<>>]

OnePromptReply == [kind |-> "list", list |-> <<Some(NameA)>>]

AllCapabilities == [tools : BOOLEAN, prompts : BOOLEAN]

\* the keys of the prompts a server owns
PromptsOf(registry, s) == {k \in DOMAIN registry : registry[k].serverName = s}

SearchTool(owner, name) == [serverName |-> owner, name |-> name, serverToolName |-> NameA]

\* the registry holds exactly the unprefixed tool, owned by `first`, and the
\* prefixed one, owned by `second`
SearchOutcome(first, second) ==
    LET prefixed == second \o <<"_", "_">> \o NameA
    IN  /\ DOMAIN toolRegistry.tools = {NameA, prefixed}
        /\ toolRegistry.tools[NameA] = SearchTool(first, NameA)
        /\ toolRegistry.tools[prefixed] = SearchTool(second, prefixed)

\* each of the two servers has registered the tool once
BothExposed == \A s \in Servers : Len(getToolsByServer(toolRegistry, s)) = 1

\* C11: when both servers have registered their tool of the same name, the
\* registry holds exactly two tools, the unprefixed one owned by one server
\* and the prefixed one owned by the other; the unprefixed name stays with
\* the server that registered it first, whatever the interleaving.
C11_ScenarioB ==
    /\ [](BothExposed => SearchOutcome(SrvMcp, SrvS1) \/ SearchOutcome(SrvS1, SrvMcp))
    /\ [][ getTool(toolRegistry, NameA).defined =>
              (NameA \in DOMAIN toolRegistry'.tools /\ getTool(toolRegistry', NameA) = getTool(toolRegistry, NameA)) ]_vars

\* one batch over both servers, started on an empty registry, has returned
\* with the second server of the map as the owner of the unprefixed name
C11_Witness ==
    \E c \in Calls :
        /\ call[c].pc = "returned"
        /\ call[c].launched = Servers
        /\ orphanHandlers = {}
        /\ \A s \in Servers : task[c, s].pc = "kept"
        /\ SearchOutcome(SrvS1, SrvMcp)

C14_InvalidConfigSkipped ==
    /\ [](\A c \in Calls : \A s \in Servers :
            task[c, s].pc = "skipped" =>
                /\ task[c, s].transport = "none"
                /\ ~task[c, s].handler
                /\ getMCPServerStatus(s) = DISCONNECTED)
    /\ [][ \A c \in Calls : \A s \in Servers :
              task'[c, s].pc = "skipped" =>
                  /\ getToolsByServer(toolRegistry', s) = getToolsByServer(toolRegistry, s)
                  /\ PromptsOf(mcpPromptsRegistry', s) = PromptsOf(mcpPromptsRegistry, s)
                  /\ \A o \in call'[c].launched : task'[c, o].pc # "idle" ]_vars
    /\ [](\A c \in Calls :
            call[c].pc = "awaiting" /\ (\A s \in call[c].launched : task[c, s].pc \in FinalPcs \ {"rejected"}) =>
                ENABLED JoinReturns(c))
    /\ [][ \A c \in Calls : JoinReturns(c) => mcpDiscoveryState' = COMPLETED ]_vars

\* a batch with a skipped server and a server that was kept has returned
C14_Witness ==
    \E c \in Calls : \E s, o \in Servers :
        /\ call[c].pc = "returned"
        /\ mcpDiscoveryState = COMPLETED
        /\ task[c, s].pc = "skipped"
        /\ task[c, o].pc = "kept"

\* C16: a failed connect writes DISCONNECTED, installs no error handler and
\* registers nothing, and the task does nothing more for the rest of the run.
C16_ConnectFailureExcludes ==
    /\ [](\A c \in Calls : \A s \in Servers :
            task[c, s].pc = "connectFailed" =>
                /\ ~task[c, s].handler
                /\ task[c, s].transport = "none"
                /\ getMCPServerStatus(s) = DISCONNECTED)
    /\ [][ /\ \A c \in Calls : \A s \in Servers :
                ConnectRejects(c, s) =>
                    /\ task'[c, s].pc = "connectFailed"
                    /\ toolRegistry' = toolRegistry
                    /\ mcpPromptsRegistry' = mcpPromptsRegistry
           /\ \A c \in Calls : \A s \in Servers :
                task[c, s].pc = "connectFailed" =>
                    /\ getToolsByServer(toolRegistry', s) = getToolsByServer(toolRegistry, s)
                    /\ PromptsOf(mcpPromptsRegistry', s) = PromptsOf(mcpPromptsRegistry, s)
                    /\ task'[c, s] = task[c, s] \/ Done(c) ]_vars

\* a batch in which a connect failed has returned
C16_Witness ==
    \E c \in Calls : \E s \in Servers :
        /\ call[c].pc = "returned"
        /\ task[c, s].pc = "connectFailed"
        /\ getMCPServerStatus(s) = DISCONNECTED

\* the list requests are issued exactly for the advertised capabilities
C17_RequestsGated ==
    [][ /\ \A c \in Calls : \A s \in Servers : \A caps \in AllCapabilities :
              ConnectResolves(c, s, caps) =>
                  /\ task'[c, s].pc = "listingTools" <=> caps.tools
                  /\ ~caps.tools => (task'[c, s].pc = "listingPrompts" <=> caps.prompts)
                  /\ toolRegistry' = toolRegistry /\ mcpPromptsRegistry' = mcpPromptsRegistry
        /\ \A c \in Calls : \A s \in Servers : \A reply \in ToolReplies :
              ToolsSettle(c, s, reply) => (task'[c, s].pc = "listingPrompts" <=> task[c, s].promptsCap) ]_vars

\* C17: a tool-list request is issued only to a server advertising tools, a
\* prompt-list request only to one advertising prompts, and a server
\* advertising neither gets no request, registers nothing and has the
\* closing of its connection started.
C17_CapabilityGating ==
    [][ /\ \A c \in Calls : \A s \in Servers : \A caps \in AllCapabilities :
              ConnectResolves(c, s, caps) =>
                  /\ task'[c, s].pc = "listingTools" <=> caps.tools
                  /\ ~caps.tools => (task'[c, s].pc = "listingPrompts" <=> caps.prompts)
                  /\ toolRegistry' = toolRegistry /\ mcpPromptsRegistry' = mcpPromptsRegistry
                  /\ ~caps.tools /\ ~caps.prompts => task'[c, s].pc = "closing"
        /\ \A c \in Calls : \A s \in Servers : \A reply \in ToolReplies :
              ToolsSettle(c, s, reply) => (task'[c, s].pc = "listingPrompts" <=> task[c, s].promptsCap) ]_vars

\* C18: a rejected prompt-list request changes neither registry nor any
\* status, does not end the call or reject the task, leaves the other
\* tasks alone, and keeps the connection when the server owns a tool.
C18_PromptListFailureIsLocal ==
    [][ \A c \in Calls : \A s \in Servers :
           PromptsSettle(c, s, RejectReply) =>
               /\ toolRegistry' = toolRegistry
               /\ mcpPromptsRegistry' = mcpPromptsRegistry
               /\ mcpServerStatusesInternal' = mcpServerStatusesInternal
               /\ call' = call /\ mcpDiscoveryState' = mcpDiscoveryState
               /\ task'[c, s].pc # "rejected"
               /\ \A o \in Servers \ {s} : task'[c, o] = task[c, o]
               /\ HasTools(toolRegistry, s) => task'[c, s].pc = "kept" /\ task'[c, s].transport = "open" ]_vars

\* the prompt-list request of a connected server that owns a tool has just
\* failed
C18_Witness ==
    \E c \in Calls :
        /\ resolved.kind = "promptsFailed"
        /\ HasTools(toolRegistry, resolved.serverName)
        /\ task[c, resolved.serverName].pc = "kept"
        /\ getMCPServerStatus(resolved.serverName) = CONNECTED

\* C19: a connected server whose task has finished has its transport closed
\* and its status DISCONNECTED exactly when it owns no tool and no prompt,
\* and its transport open when it owns one.
C19_IdleTeardown ==
    \A c \in Calls : \A s \in Servers :
        task[c, s].handler /\ task[c, s].pc \in FinalPcs =>
            IF Registered(s)
            THEN task[c, s].pc = "kept" /\ task[c, s].transport = "open"
            ELSE task[c, s].pc = "closed" /\ task[c, s].transport = "none" /\ getMCPServerStatus(s) = DISCONNECTED

\* C19 restricted to tasks whose transport.close() did not reject
C19_WhenCloseSucceeds ==
    \A c \in Calls : \A s \in Servers :
        task[c, s].handler /\ task[c, s].pc \in FinalPcs \ {"rejected"} =>
            IF Registered(s)
            THEN task[c, s].pc = "kept" /\ task[c, s].transport = "open"
            ELSE task[c, s].pc = "closed" /\ task[c, s].transport = "none" /\ getMCPServerStatus(s) = DISCONNECTED

\* C12: every named prompt of a prompt list is registered under the public
\* name server + "__" + name with the characters outside [A-Za-z0-9_.-]
\* replaced by "_".
C12_PromptPublicName ==
    resolved.kind = "prompts" =>
        \A i \in 1..Len(resolved.list) :
            Truthy(resolved.list[i]) =>
                StatedCommandCandidate(resolved.list[i].value, resolved.serverName) \in DOMAIN mcpPromptsRegistry

\* what discovery registers instead: the key server + ":" + raw name
C12_RegisteredUnderKey ==
    resolved.kind = "prompts" =>
        \A i \in 1..Len(resolved.list) :
            Truthy(resolved.list[i]) =>
                /\ resolved.serverName \o <<":">> \o resolved.list[i].value \in DOMAIN mcpPromptsRegistry
                /\ mcpPromptsRegistry[resolved.serverName \o <<":">> \o resolved.list[i].value].name = resolved.list[i].value

\* promptToSlashCommandName on names that need no truncation
C12_CommandNameOfShortNames ==
    resolved.kind = "command" /\ Len(StatedCommandCandidate(RawName, resolved.serverName)) <= 63 =>
        resolved.out = StatedCommandCandidate(RawName, resolved.serverName)

\* the transport the stated precedence chooses
StatedTransport(fields) ==
    IF fields.httpUrl.defined THEN "http"
    ELSE IF fields.url.defined THEN "sse"
    ELSE IF fields.command.defined THEN "stdio"
    ELSE "none"

\* C15: for every combination of present fields the transport built is
\* streaming-HTTP if httpUrl is present, else event-stream if url is
\* present, else spawned-process if command is present.
C15_TransportPrecedence ==
    resolved.kind = "transport" =>
        \A c \in Calls : task[c, resolved.serverName].transport = StatedTransport(resolved.cfg)

\* C15 restricted to configurations whose selected URL is well-formed
C15_WhenUrlWellFormed ==
    resolved.kind = "transport" =>
        \A c \in Calls :
            task[c, resolved.serverName].pc # "rejected" =>
                task[c, resolved.serverName].transport = StatedTransport(resolved.cfg)

\* how often x occurs in a list
RECURSIVE Count(_, _)
Count(list, x) == IF list = <<>> THEN 0 ELSE (IF Head(list) = x THEN 1 ELSE 0) + Count(Tail(list), x)

\* C20: a status write notifies each listener subscribed at the time of the
\* write once per subscription and no other listener, each notification
\* sees the stored value already updated, and the write does not throw;
\* removing a listener that is not subscribed changes nothing.
C20_DeliveryLaw ==
    /\ notified.written =>
          /\ ~notified.threw
          /\ \A l \in ListenerIds :
                Count([i \in 1..Len(notified.log) |-> notified.log[i].listener], l) = Count(notified.before, l)
          /\ \A i \in 1..Len(notified.log) : notified.log[i].stored = notified.status
          /\ getMCPServerStatus(notified.serverName) = notified.status
    /\ \A l \in ListenerIds :
          ~Includes(statusChangeListeners, l) => removeMCPStatusChangeListener(statusChangeListeners, l) = statusChangeListeners

\* C20 restricted to listeners that neither throw nor change the
\* subscriptions while they are notified
C20_WhenListenersOnlyObserve ==
    /\ notified.written /\ (\A i \in 1..Len(notified.before) : notified.before[i] = "plain") =>
          /\ ~notified.threw
          /\ [i \in 1..Len(notified.log) |-> notified.log[i].listener] = notified.before
          /\ \A i \in 1..Len(notified.log) : notified.log[i].stored = notified.status
          /\ getMCPServerStatus(notified.serverName) = notified.status
    /\ \A l \in ListenerIds :
          ~Includes(statusChangeListeners, l) => removeMCPStatusChangeListener(statusChangeListeners, l) = statusChangeListeners

-----------------------------------------------------------------------------
\* Calls on an MCPPromptRegistry; `resolved.log` keeps the prompts passed to
\* registerPrompt since the registry was last empty

MaxRegistered == 3

SrvOther == <<"s", "9">>

RegistryPrompts ==
    [name : {NameA, NameB}, serverName : {SrvS1, SrvMcp}, description : {<<"x">>, <<"y">>}]

CallLog == IF resolved.kind \in {"registered", "cleared"} THEN resolved.log ELSE <<>>

RegisterPromptStep(prompt) ==
    /\ Len(CallLog) < MaxRegistered
    /\ promptRegistry' = registerPrompt(promptRegistry, prompt)
    /\ resolved' = [kind |-> "registered", log |-> Append(CallLog, prompt)]
    /\ UNCHANGED <<mcpDiscoveryState, mcpServerStatusesInternal, mcpPromptsRegistry, toolRegistry, call, task, orphanHandlers, statusChangeListeners, notified>>

ClearStep ==
    /\ promptRegistry' = clear(promptRegistry)
    /\ resolved' = [kind |-> "cleared", log |-> <<>>]
    /\ UNCHANGED <<mcpDiscoveryState, mcpServerStatusesInternal, mcpPromptsRegistry, toolRegistry, call, task, orphanHandlers, statusChangeListeners, notified>>

NextRegistry ==
    \/ \E prompt \in RegistryPrompts : RegisterPromptStep(prompt)
    \/ ClearStep

SpecRegistry == Init /\ [][NextRegistry]_vars

-----------------------------------------------------------------------------
\* Prompt requests (mcp-prompt.ts 111-163) and the slash command built from a
\* prompt (MCPPromptService, mcpPromptToSlashCommand).  The functions keep no
\* state: a behaviour makes one call and records it in `resolved`.

RECURSIVE SplitFrom(_, _, _, _)
SplitFrom(str, sep, i, piece) ==
    IF i > Len(str) THEN <<piece>>
    ELSE IF str[i] = sep THEN <<piece>> \o SplitFrom(str, sep, i + 1, <<>>)
    ELSE SplitFrom(str, sep, i + 1, Append(piece, str[i]))

\* String.prototype.split with a one-character separator
Split(str, sep) == SplitFrom(str, sep, 1, <<>>)

RECURSIVE NonEmpty(_)
\* Array.prototype.filter(Boolean) on strings
NonEmpty(pieces) ==
    IF pieces = <<>> THEN <<>>
    ELSE (IF Head(pieces) # <<>> THEN <<Head(pieces)>> ELSE <<>>) \o NonEmpty(Tail(pieces))

\* args.split(/\s+/).filter(Boolean): a run of blanks separates like one
\* blank once the empty pieces are dropped
ArgPairs(args) == NonEmpty(Split(args, " "))

RECURSIVE Join(_, _)
\* Array.prototype.join
Join(parts, sep) ==
    IF parts = <<>> THEN <<>>
    ELSE IF Len(parts) = 1 THEN parts[1]
    ELSE parts[1] \o sep \o Join(Tail(parts), sep)

\* names every object literal inherits from Object.prototype (among them)
ObjectPrototypeKeys == { <<"c", "o", "n", "s", "t", "r", "u", "c", "t", "o", "r">>, <<"v", "a", "l", "u", "e", "O", "f">> }

\* promptArgs[key] = value
SetProperty(obj, key, value) == [k \in DOMAIN obj \cup {key} |-> IF k = key THEN value ELSE obj[k]]

\* the truthiness of promptArgs[key]: an own property is a string, an
\* inherited one a function
PropertyTruthy(obj, key) == IF key \in DOMAIN obj THEN obj[key] # <<>> ELSE key \in ObjectPrototypeKeys

RECURSIVE ParsePairs(_, _)
\* the loop over argPairs
ParsePairs(argPairs, promptArgs) ==
    IF argPairs = <<>> THEN promptArgs
    ELSE LET parts == Split(Head(argPairs), "=")
             key == Head(parts)
             valueParts == Tail(parts)
         IN  ParsePairs(Tail(argPairs),
                IF key # <<>> /\ Len(valueParts) > 0 THEN SetProperty(promptArgs, key, Join(valueParts, <<"=">>)) ELSE promptArgs)

RECURSIVE FirstMissing(_, _)
\* the loop over requiredArgs: the first required argument whose value is falsy
FirstMissing(arguments, promptArgs) ==
    IF arguments = <<>> THEN Undefined
    ELSE IF Head(arguments).required /\ ~PropertyTruthy(promptArgs, Head(arguments).name) THEN Some(Head(arguments))
    ELSE FirstMissing(Tail(arguments), promptArgs)

\* String.prototype.replace(pattern, ''): the first occurrence is removed
RemoveFirst(str, pattern) ==
    LET at == {i \in 1..(Len(str) - Len(pattern) + 1) : SubSeq(str, i, i + Len(pattern) - 1) = pattern}
    IN  IF at = {} THEN str
        ELSE LET i == CHOOSE x \in at : \A y \in at : x <= y
             IN  SubSeq(str, 1, i - 1) \o SubSeq(str, i + Len(pattern), Len(str))

\* executeMCPPrompt(client, promptName, args, timeout) against a server that
\* answers `reply`
executeMCPPrompt(promptName, args, timeout, reply) ==
    [request |-> [method |-> "prompts/get", name |-> promptName, arguments |-> args, timeout |-> timeout],
     threw |-> reply.kind = "reject",
     value |-> IF reply.kind = "reject" THEN <<>> ELSE reply.messages]

discoverMCPPrompts_Propagates(timeout, reply) ==
    [request |-> [method |-> "prompts/list", timeout |-> timeout],
     threw |-> reply.kind = "reject",
     value |-> IF reply.kind = "reject" THEN <<>> ELSE IF reply.prompts.defined THEN reply.prompts.value ELSE <<>>]

\* discoverMCPPrompts(client, timeout)
discoverMCPPrompts(timeout, reply) ==
    [request |-> [method |-> "prompts/list", timeout |-> timeout],
     threw |-> FALSE,
     value |-> IF reply.kind = "reject" THEN <<>> ELSE IF reply.prompts.defined THEN reply.prompts.value ELSE <<>>]

NoReturn == [type |-> "none", messageType |-> "none", content |-> <<>>]

ErrorMessage(content) == [type |-> "message", messageType |-> "error", content |-> content]

\* the items the action adds to the history for a result
AddedItems(prompt, messages) ==
    IF Len(messages) > 0
    THEN [i \in 1..Len(messages) |-> [type |-> "user", text |-> messages[i]]]
    ELSE <<[type |-> "info", text |-> prompt.name]>>

\* the action of mcpPromptToSlashCommand(prompt), called with args
SlashCommandAction(prompt, args, reply) ==
    LET declares == prompt.arguments.defined /\ Len(prompt.arguments.value) > 0
        promptArgs == IF declares THEN ParsePairs(ArgPairs(args), EmptyMap) ELSE EmptyMap
        missing == IF declares THEN FirstMissing(prompt.arguments.value, promptArgs) ELSE Undefined
        result == executeMCPPrompt(RemoveFirst(prompt.name, prompt.serverName \o <<"_", "_">>), promptArgs, prompt.timeout, reply)
    IN  IF missing.defined
        THEN [requests |-> <<>>, threw |-> FALSE, added |-> <<>>,
              returned |-> ErrorMessage(<<"Missing required argument", missing.value.name, missing.value.description>>)]
        ELSE IF result.threw
        THEN [requests |-> <<result.request>>, threw |-> FALSE, added |-> <<>>,
              returned |-> ErrorMessage(<<"Failed to execute prompt", prompt.name>>)]
        ELSE [requests |-> <<result.request>>, threw |-> FALSE, added |-> AddedItems(prompt, result.value),
              returned |-> NoReturn]

\* Inputs of the prompt specification

MaxPairs == 2

ArgR == <<"r">>

ArgO == <<"o">>

ArgQ == <<"q">>

ArgConstructor == <<"c", "o", "n", "s", "t", "r", "u", "c", "t", "o", "r">>

PromptArgument(name, required) == [name |-> name, required |-> required, description |-> Undefined]

SlashArguments ==
    { Undefined, Some(<<>>),
      Some(<<PromptArgument(ArgR, TRUE)>>),
      Some(<<PromptArgument(ArgO, FALSE), PromptArgument(ArgR, TRUE)>>),
      Some(<<PromptArgument(ArgR, TRUE), PromptArgument(ArgQ, TRUE)>>),
      Some(<<PromptArgument(ArgConstructor, TRUE)>>) }

SlashPrompts ==
    [name : {promptToSlashCommandName(SrvS1, NameA)}, serverName : {SrvS1}, arguments : SlashArguments,
     timeout : {Undefined, Some(<<"5", "s">>)}]

Words ==
    { <<"r", "=", "v">>, <<"r", "=">>, <<"r">>, <<"=", "v">>, <<"r", "=", "v", "=", "w">>, <<"o", "=", "v">>, <<"q", "=", "v">> }

GetReplies == { [kind |-> "reject", messages |-> <<>>], [kind |-> "result", messages |-> <<>>], [kind |-> "result", messages |-> <<"text">>] }

ListReplies ==
    { [kind |-> "reject", prompts |-> Undefined], [kind |-> "result", prompts |-> Undefined],
      [kind |-> "result", prompts |-> Some(<<>>)], [kind |-> "result", prompts |-> Some(<<NameA>>)],
      [kind |-> "result", prompts |-> Some(<<NameA, NameB>>)] }

\* a call of the action with the words separated by `blank` and led by `lead`
SlashStep(prompt, words, blank, lead, reply) ==
    /\ resolved.kind = "none"
    /\ resolved' = [kind |-> "slash", prompt |-> prompt, words |-> words, args |-> lead \o Join(words, blank), reply |-> reply,
                    out |-> SlashCommandAction(prompt, lead \o Join(words, blank), reply)]
    /\ UNCHANGED <<mcpDiscoveryState, mcpServerStatusesInternal, mcpPromptsRegistry, toolRegistry, call, task, orphanHandlers, statusChangeListeners, notified, promptRegistry>>

DiscoverMCPPromptsStep(timeout, reply) ==
    /\ resolved.kind = "none"
    /\ resolved' = [kind |-> "discoverMCPPrompts", reply |-> reply, out |-> discoverMCPPrompts(timeout, reply)]
    /\ UNCHANGED <<mcpDiscoveryState, mcpServerStatusesInternal, mcpPromptsRegistry, toolRegistry, call, task, orphanHandlers, statusChangeListeners, notified, promptRegistry>>

ExecuteMCPPromptStep(promptName, args, timeout, reply) ==
    /\ resolved.kind = "none"
    /\ resolved' = [kind |-> "executeMCPPrompt", reply |-> reply, out |-> executeMCPPrompt(promptName, args, timeout, reply)]
    /\ UNCHANGED <<mcpDiscoveryState, mcpServerStatusesInternal, mcpPromptsRegistry, toolRegistry, call, task, orphanHandlers, statusChangeListeners, notified, promptRegistry>>

\* the prompt as it is registered for the slash commands: its name is the
\* command name of the server-side name
RegisteredPrompt(serverName, rawName) ==
    [name |-> promptToSlashCommandName(serverName, rawName), serverName |-> serverName, arguments |-> Undefined, timeout |-> Undefined]

\* a call of the action of the prompt registered for a server-side name
RoundTripStep(serverName, rawName, reply) ==
    /\ resolved.kind = "none"
    /\ resolved' = [kind |-> "roundTrip", serverName |-> serverName, rawName |-> rawName, reply |-> reply,
                    out |-> SlashCommandAction(RegisteredPrompt(serverName, rawName), <<>>, reply)]
    /\ UNCHANGED <<mcpDiscoveryState, mcpServerStatusesInternal, mcpPromptsRegistry, toolRegistry, call, task, orphanHandlers, statusChangeListeners, notified, promptRegistry>>

NextSlash ==
    \/ \E serverName \in NameServers : \E rawName \in RawNames \cup {NameA} : \E reply \in GetReplies :
          RoundTripStep(serverName, rawName, reply)
    \/ \E prompt \in SlashPrompts : \E words \in SeqsUpTo(Words, MaxPairs) :
          \E blank \in {<<" ">>, <<" ", " ">>} : \E lead \in {<<>>, <<" ">>} : \E reply \in GetReplies :
             SlashStep(prompt, words, blank, lead, reply)
    \/ \E timeout \in {Undefined, Some(<<"5", "s">>)} : \E reply \in ListReplies : DiscoverMCPPromptsStep(timeout, reply)
    \/ \E promptName \in {NameA, NameB} : \E args \in {EmptyMap, SetProperty(EmptyMap, ArgR, <<"v">>)} :
          \E timeout \in {Undefined, Some(<<"5", "s">>)} : \E reply \in GetReplies :
             ExecuteMCPPromptStep(promptName, args, timeout, reply)

SpecSlash == Init /\ [][NextSlash]_vars

-----------------------------------------------------------------------------
\* Properties of the command string, error events and status transitions

\* the entry synthesized from a command string: its first word is the
\* executable
StatedCommandEntry(cmd) ==
    [httpUrl |-> Undefined, url |-> Undefined, command |-> Some(parse(cmd)[1].text),
     includeTools |-> Undefined, excludeTools |-> Undefined]

\* C21 for the call whose start was recorded, over the configured servers
\* in `configured`
StartedAsStated(configured) ==
    LET c == resolved.call
        cmd == resolved.mcpServerCommand
        servers == resolved.mcpServers
    IN  IF Truthy(cmd) /\ ParseFails(parse(cmd.value))
        THEN /\ call[c].pc = "thrown"
             /\ call[c].launched = {}
             /\ \A s \in Servers : task[c, s].pc = "idle"
             /\ mcpServerStatusesInternal = resolved.statusesBefore
             /\ mcpDiscoveryState = COMPLETED
        ELSE /\ call[c].pc = "awaiting"
             /\ mcpDiscoveryState = IN_PROGRESS
             /\ \A n \in configured : n \in call[c].launched /\ task[c, n] = FirstSegment(servers[n])
             /\ Truthy(cmd) /\ parse(cmd.value) # <<>> =>
                   SrvMcp \in call[c].launched /\ task[c, SrvMcp] = FirstSegment(StatedCommandEntry(cmd.value))
             /\ call[c].launched = DOMAIN servers \cup (IF Truthy(cmd) THEN {SrvMcp} ELSE {})

\* C21: a command string that does not parse makes the call throw with no
\* task launched, no status changed and the state COMPLETED; otherwise every
\* configured server is started with its own configuration, together with
\* the entry `mcp` built from the command string when one is given.
C21_CommandString == resolved.kind = "start" => StartedAsStated(DOMAIN resolved.mcpServers)

\* C21 for the configured servers other than one named `mcp`
C21_WhenNoConfiguredMcp ==
    resolved.kind = "start" =>
        StartedAsStated(IF Truthy(resolved.mcpServerCommand) THEN DOMAIN resolved.mcpServers \ {SrvMcp} ELSE DOMAIN resolved.mcpServers)

\* C22: an error event of an established client writes DISCONNECTED for its
\* server and changes neither registry, no other server's status and not the
\* discovery state.
C22_ErrorEventFrame ==
    [][ /\ \A c \in Calls : \A s \in Servers :
              ErrorEvent(c, s) =>
                  /\ getMCPServerStatus(s)' = DISCONNECTED
                  /\ toolRegistry' = toolRegistry /\ mcpPromptsRegistry' = mcpPromptsRegistry
                  /\ mcpDiscoveryState' = mcpDiscoveryState /\ call' = call
                  /\ \A o \in Servers \ {s} : getMCPServerStatus(o)' = getMCPServerStatus(o)
        /\ \A s \in Servers :
              OrphanErrorEvent(s) =>
                  /\ getMCPServerStatus(s)' = DISCONNECTED
                  /\ toolRegistry' = toolRegistry /\ mcpPromptsRegistry' = mcpPromptsRegistry
                  /\ mcpDiscoveryState' = mcpDiscoveryState /\ call' = call
                  /\ \A o \in Servers \ {s} : getMCPServerStatus(o)' = getMCPServerStatus(o) ]_vars

\* a kept server that owns a tool or prompt was hit by an error event and is
\* DISCONNECTED, while the other server is still CONNECTED
C22_Witness ==
    \E c \in Calls : \E s, o \in Servers :
        /\ task[c, s].erred /\ task[c, s].pc = "kept"
        /\ Registered(s)
        /\ getMCPServerStatus(s) = DISCONNECTED
        /\ getMCPServerStatus(o) = CONNECTED

StatedTransitions ==
    { <<DISCONNECTED, CONNECTING>>, <<CONNECTING, CONNECTED>>, <<CONNECTING, DISCONNECTED>>, <<CONNECTED, DISCONNECTED>> }

\* C27: every change of a server's stored status is one of the stated
\* transitions.
C27_StatusTransitions ==
    [][ \A s \in Servers :
           getMCPServerStatus(s)' # getMCPServerStatus(s) =>
               <<getMCPServerStatus(s), getMCPServerStatus(s)'>> \in StatedTransitions ]_vars

\* C27 for the first run of a server, with no client of an earlier run alive
C27_InFirstRun ==
    [][ \A s \in Servers :
           getMCPServerStatus(s)' # getMCPServerStatus(s) /\ orphanHandlers' = {} /\ ~(\E c \in Calls : Done(c)) =>
               <<getMCPServerStatus(s), getMCPServerStatus(s)'>> \in StatedTransitions ]_vars

\* the tool resolver's answer for the input of the recorded call of the
\* prompt resolver
ToolResolverAnswer == ToolNameForModel(resolved.serverName, resolved.list[1].value, resolved.toolsBefore)

-----------------------------------------------------------------------------
\* Properties of MCPPromptRegistry

\* the positions of the call log that registered the name
RegisteredAt(name) == {i \in 1..Len(CallLog) : CallLog[i].name = name}

RECURSIVE Keep(_, _)
\* the prompts of a list that were registered with the server, in order
Keep(list, serverName) ==
    IF list = <<>> THEN <<>>
    ELSE (IF Head(list).serverName = serverName THEN <<Head(list)>> ELSE <<>>) \o Keep(Tail(list), serverName)

\* C23: after any sequence of registerPrompt and clear, getPrompt(n) is the
\* prompt most recently registered under n or undefined, size() is the
\* number of distinct registered names, getPromptsByServer(s) is the prompts
\* registered with server s in insertion order (empty for an unknown
\* server), and clear() leaves both maps empty.
C23_RegistryContract ==
    /\ \A n \in {NameA, NameB} :
          getPrompt(promptRegistry, n) =
             (IF RegisteredAt(n) = {} THEN Undefined
              ELSE Some(CallLog[CHOOSE i \in RegisteredAt(n) : \A j \in RegisteredAt(n) : j <= i]))
    /\ size(promptRegistry) = Cardinality({CallLog[i].name : i \in 1..Len(CallLog)})
    /\ \A s \in {SrvS1, SrvMcp, SrvOther} : getPromptsByServer(promptRegistry, s) = Keep(CallLog, s)
    /\ resolved.kind = "cleared" => promptRegistry.prompts = <<>> /\ DOMAIN promptRegistry.promptsByServer = {}

\* a name was registered twice with different prompts and getPrompt returns
\* the later one
C23_Witness ==
    /\ Len(CallLog) >= 2
    /\ CallLog[1].name = CallLog[2].name /\ CallLog[1] # CallLog[2]
    /\ RegisteredAt(CallLog[1].name) = {1, 2}
    /\ getPrompt(promptRegistry, CallLog[2].name) = Some(CallLog[2])
    /\ size(promptRegistry) = 1

RECURSIVE SumOfLengths(_, _)
SumOfLengths(buckets, keys) ==
    IF keys = {} THEN 0
    ELSE LET k == CHOOSE x \in keys : TRUE
         IN  Len(buckets[k]) + SumOfLengths(buckets, keys \ {k})

\* C30: the two indexes agree: every prompt of a server's bucket is the one
\* getPrompt returns for its name, every prompt of getAllPrompts occurs
\* exactly once in its server's bucket, and size() is the total length of
\* the buckets.
C30_IndexesConsistent ==
    /\ \A s \in DOMAIN promptRegistry.promptsByServer :
          \A i \in 1..Len(promptRegistry.promptsByServer[s]) :
             getPrompt(promptRegistry, promptRegistry.promptsByServer[s][i].name) = Some(promptRegistry.promptsByServer[s][i])
    /\ \A i \in 1..Len(getAllPrompts(promptRegistry)) :
          LET prompt == getAllPrompts(promptRegistry)[i]
          IN  Count(getPromptsByServer(promptRegistry, prompt.serverName), prompt) = 1
    /\ size(promptRegistry) = SumOfLengths(promptRegistry.promptsByServer, DOMAIN promptRegistry.promptsByServer)

\* C30 while every name has been registered at most once
C30_WhenNamesRegisteredOnce ==
    (\A n \in {NameA, NameB} : Cardinality(RegisteredAt(n)) <= 1) => C30_IndexesConsistent

-----------------------------------------------------------------------------
\* Properties of the slash command and the prompt requests

\* the position of the first `=` of a word, 0 when it has none
FirstEquals(word) ==
    IF \E i \in 1..Len(word) : word[i] = "="
    THEN CHOOSE i \in 1..Len(word) : word[i] = "=" /\ \A j \in 1..(i - 1) : word[j] # "="
    ELSE 0

\* the positions of the recorded words that are a pair for the key
PairsFor(key) ==
    {i \in 1..Len(resolved.words) : FirstEquals(resolved.words[i]) > 1 /\ SubSeq(resolved.words[i], 1, FirstEquals(resolved.words[i]) - 1) = key}

StatedKeys ==
    {SubSeq(resolved.words[i], 1, FirstEquals(resolved.words[i]) - 1) : i \in {j \in 1..Len(resolved.words) : FirstEquals(resolved.words[j]) > 1}}

\* key -> the text after the first `=` of the last pair given for the key
StatedArguments ==
    [key \in StatedKeys |->
        LET i == CHOOSE x \in PairsFor(key) : \A y \in PairsFor(key) : y <= x
        IN  SubSeq(resolved.words[i], FirstEquals(resolved.words[i]) + 1, Len(resolved.words[i]))]

\* the positions of the declared arguments that are required and have no
\* non-empty value
StatedMissing ==
    {i \in 1..Len(resolved.prompt.arguments.value) :
        /\ resolved.prompt.arguments.value[i].required
        /\ \/ resolved.prompt.arguments.value[i].name \notin StatedKeys
           \/ StatedArguments[resolved.prompt.arguments.value[i].name] = <<>>}

DeclaresArguments == resolved.kind = "slash" /\ resolved.prompt.arguments.defined /\ resolved.prompt.arguments.value # <<>>

CalledAsStated ==
    IF StatedMissing # {}
    THEN /\ resolved.out.requests = <<>>
         /\ resolved.out.returned.messageType = "error"
         /\ resolved.out.returned.content[2] =
               resolved.prompt.arguments.value[CHOOSE i \in StatedMissing : \A j \in StatedMissing : i <= j].name
    ELSE /\ Len(resolved.out.requests) = 1
         /\ resolved.out.requests[1].arguments = StatedArguments
         /\ resolved.out.requests[1].timeout = resolved.prompt.timeout

\* C25: the action of a prompt that declares arguments returns an error
\* naming the first required argument without a non-empty value and sends
\* no request; when there is none it sends one request with exactly the
\* parsed key=value pairs and the prompt's timeout.
C25_RequiredArguments == DeclaresArguments => CalledAsStated

\* C25 for required arguments whose name no object inherits
C25_WhenNamesAreNotInherited ==
    DeclaresArguments /\ (\A i \in 1..Len(resolved.prompt.arguments.value) : resolved.prompt.arguments.value[i].name \notin ObjectPrototypeKeys)
        => CalledAsStated

\* C26: discoverMCPPrompts never throws and returns the server's list, the
\* empty list when the request is rejected or the field is missing;
\* executeMCPPrompt throws exactly when prompts/get is rejected; the action
\* returns an error message for a rejected prompts/get instead of throwing.
C26_RequestFailures ==
    /\ resolved.kind = "discoverMCPPrompts" =>
          /\ ~resolved.out.threw
          /\ resolved.out.value =
                (IF resolved.reply.kind = "reject" \/ ~resolved.reply.prompts.defined THEN <<>> ELSE resolved.reply.prompts.value)
    /\ resolved.kind = "executeMCPPrompt" =>
          /\ resolved.out.threw <=> resolved.reply.kind = "reject"
          /\ ~resolved.out.threw => resolved.out.value = resolved.reply.messages
    /\ resolved.kind = "slash" /\ resolved.out.requests # <<>> /\ resolved.reply.kind = "reject" =>
          /\ ~resolved.out.threw
          /\ resolved.out.returned.type = "message" /\ resolved.out.returned.messageType = "error"
          /\ resolved.out.added = <<>>

\* prompts/list was rejected and discoverMCPPrompts returned the empty list
C26_Witness ==
    /\ resolved.kind = "discoverMCPPrompts"
    /\ resolved.reply.kind = "reject"
    /\ resolved.out.value = <<>> /\ ~resolved.out.threw

-----------------------------------------------------------------------------
\* Properties of the isolation between server tasks

\* a step of the task of server s in call c after its start, or an error
\* event of its client
TaskStep(c, s) ==
    \/ \E capabilities \in AllCapabilities : ConnectResolves(c, s, capabilities)
    \/ ConnectRejects(c, s)
    \/ \E reply \in ToolReplies : ToolsSettle(c, s, reply)
    \/ \E reply \in PromptReplies : PromptsSettle(c, s, reply)
    \/ CloseResolves(c, s)
    \/ CloseRejects(c, s)
    \/ ErrorEvent(c, s)

\* the registry with the tools of the other servers taken out
OwnOnly(reg, s) ==
    [tools |-> [n \in {x \in DOMAIN reg.tools : reg.tools[x].serverName = s} |-> reg.tools[n]],
     byServer |-> [k \in DOMAIN reg.byServer \cap {s} |-> reg.byServer[k]]]

\* the prompt registry with the prompts of the other servers taken out
OwnPrompts(registry, s) == [k \in PromptsOf(registry, s) |-> registry[k]]

ServerToolNames(tools) == [i \in 1..Len(tools) |-> tools[i].serverToolName]

\* what the task of s registers for a tool list if no other server had
\* registered anything
RegisteredAlone(c, s, reply) == RegisterFunctionDeclarations(s, task[c, s].cfg, reply.list, OwnOnly(toolRegistry, s))

-----------------------------------------------------------------------------
\* Properties of overlapping calls

\* C29: while a call of discoverMcpTools is awaiting its server tasks the
\* discovery state is IN_PROGRESS, also when two calls overlap.
C29_InProgressWhileActive ==
    (\E c \in AllCalls : call[c].pc = "awaiting") => mcpDiscoveryState = IN_PROGRESS

\* C29 for a call made while no other call has ever been made
C29_WhenCallsDoNotOverlap ==
    (\E c \in AllCalls : call[c].pc = "awaiting" /\ \A o \in AllCalls \ {c} : call[o].pc = "idle") => mcpDiscoveryState = IN_PROGRESS

-----------------------------------------------------------------------------
\* Properties of the command name round trip

SentAsStated ==
    /\ Len(resolved.out.requests) = 1
    /\ resolved.out.requests[1].method = "prompts/get"
    /\ resolved.out.requests[1].name = resolved.rawName

\* C31: the slash command of a prompt registered under
\* promptToSlashCommandName(server, rawName) sends prompts/get with exactly
\* rawName.
C31_RoundTrip == resolved.kind = "roundTrip" => SentAsStated

\* C31 for a raw name of valid characters whose prefixed form is not
\* truncated
C31_WhenNameIsKept ==
    /\ resolved.kind = "roundTrip"
    /\ \A i \in 1..Len(resolved.rawName) : resolved.rawName[i] \in ValidNameChars
    /\ Len(resolved.serverName) + 2 + Len(resolved.rawName) <= MaxToolNameLength
    => SentAsStated

====
